---- MODULE Spec2Model ----
(***************************************************************************)
(* A model of src/service.js, the filex bucket service: the in-memory      *)
(* bucket registry, the multer upload callbacks, the lazily built zip of   *)
(* a bucket, the metadata handlers and the expiry sweeper.                 *)
(*                                                                         *)
(* Every request is a chain of express middlewares.  A middleware that     *)
(* calls next() synchronously runs in the same action as its successor;    *)
(* an action ends where the code waits for an I/O callback (fs.exists,     *)
(* fs.mkdir, a stream event, fs.readdir, fs.stat, the body parser).        *)
(* rimraf(path, Function.noop) is fire-and-forget: the removal is an       *)
(* entry of pendingRm that RimrafDone performs at some later time.         *)
(***************************************************************************)
EXTENDS Integers, Sequences, FiniteSets, TLC

VARIABLES
    now,        \* Date.now(), in model time units
    lastSweep,  \* the time the setInterval callback last ran
    alive,      \* FALSE once an uncaught exception has ended the process
    buckets,    \* the registry Map: id -> index into objs, 0 when absent
    objs,       \* the bucket info objects ever created (a request holds a reference)
    disk,       \* ./upload/<id>: the directory, its files and its <id>.zip
    pendingRm,  \* rimraf calls issued and not yet performed
    req,        \* the requests in flight: their parameters and where each is suspended
    nreq        \* the number of requests received so far

vars == <<now, lastSweep, alive, buckets, objs, disk, pendingRm, req, nreq>>

(***************************************************************************)
(* Bounds of the model.                                                    *)
(***************************************************************************)
MaxReq == 3        \* requests received in one behaviour
MaxBuckets == 2    \* bucket objects created in one behaviour
MaxTime == 4       \* the clock stops here

(***************************************************************************)
(* Program constants, in model units: one time unit is 30 s, one unit of   *)
(* file size is one chunk of the upload stream.                            *)
(***************************************************************************)
defaultTtl == 30      \* minutes
fileSizeLimit == 1    \* chunks (20 Mb in the source)
Minute == 2           \* 60 * 1000 ms
SweepInterval == 2    \* 60 * 1000 ms

Reqs == {1, 2}                    \* two requests can be in flight at a time
Ids == {"i1", "i2"}               \* what randomstring.generate() may return
Names == {"a", "1"}               \* file names of uploads
FileParams == {"a", "0", "1"}     \* :idx_or_name
TtlQueries == {"", "1", "-1"}     \* ?ttl= (absent, 1, -1)
Chunks == {1, 2}                  \* contents of one chunk; 0 is a hole on disk
Payloads == {<<1>>, <<2>>, <<1, 2>>}
IdLists == {<<>>} \cup {<<i>> : i \in Ids} \cup {<<i, j>> : i, j \in Ids}   \* ?ids=
EmptyMap == [k \in {} |-> 0]
Metas == {EmptyMap, [k \in {"x"} |-> 1], [k \in {"x", "y"} |-> IF k = "x" THEN 0 ELSE 2]}
ZipTarget == "#zip"
DirTarget == "#dir"

Min(a, b) == IF a < b THEN a ELSE b

(***************************************************************************)
(* crypto.createHash('sha1'): update() folds one chunk into the state,     *)
(* digest() reads it.  The fold is injective on byte strings, as SHA-1 is  *)
(* taken to be.                                                            *)
(***************************************************************************)
Sha1Init == 0
Sha1Update(h, chunk) == h * 4 + chunk + 1

RECURSIVE Sha1From(_, _)
Sha1From(h, bytes) ==
    IF bytes = <<>> THEN h ELSE Sha1From(Sha1Update(h, Head(bytes)), Tail(bytes))

Sha1(bytes) == Sha1From(Sha1Init, bytes)

(***************************************************************************)
(* The disk.                                                               *)
(***************************************************************************)
NoFile == [present |-> FALSE, bytes |-> <<>>, writers |-> {}]
NoZip == [present |-> FALSE, names |-> {}, complete |-> FALSE, writers |-> {},
          corrupt |-> FALSE, ver |-> 0]
NoDir == [exists |-> FALSE, files |-> [n \in Names |-> NoFile], zip |-> NoZip]
EmptyDir == [NoDir EXCEPT !.exists = TRUE]

\* fs.write of one chunk at the descriptor's offset; a gap is filled with zeros
WriteAt(bytes, off, c) ==
    IF off < Len(bytes)
    THEN [bytes EXCEPT ![off + 1] = c]
    ELSE bytes \o [i \in 1..(off - Len(bytes)) |-> 0] \o <<c>>

\* busboy hands over at most limits.fileSize of a file and drops the rest
Delivered(data) == SubSeq(data, 1, Min(Len(data), fileSizeLimit))

(***************************************************************************)
(* Bucket info objects and requests.                                       *)
(***************************************************************************)
NoResp == [code |-> "none", names |-> {}, complete |-> FALSE, corrupt |-> FALSE,
           bytes |-> <<>>, ver |-> 0, list |-> <<>>]

IdleReq == [kind |-> "none", pc |-> "idle", id |-> "i1", oid |-> 0, hasFile |-> FALSE,
            name |-> "", data |-> <<>>, pos |-> 0, sha |-> 0, body |-> EmptyMap,
            zopen |-> FALSE, zlist |-> FALSE, listing |-> {}, lver |-> 0,
            fidx |-> -1, startVer |-> 0, ids |-> <<>>, resp |-> NoResp]

FileNames(files) == {files[i].name : i \in 1..Len(files)}

\* a comparison that never matches: every lookup misses
findFileIndexNoMatch(files, fileName) == -1

\* Array.prototype.find of collections/shim-array with the equals of lines 108-110:
\* the (0-based) index of the first entry of that name, or -1
findFileIndex(files, fileName) ==
    IF \E i \in 1..Len(files) : files[i].name = fileName
    THEN (CHOOSE i \in 1..Len(files) :
              /\ files[i].name = fileName
              /\ \A j \in 1..(i - 1) : files[j].name # fileName) - 1
    ELSE -1

getInfo(r) == objs[req[r].oid]

NewInfo(id, t, ttl) ==
    [id |-> id, time |-> t, ttl |-> ttl, expires |-> t + ttl * Minute,
     hasFiles |-> FALSE, files |-> <<>>, hasMeta |-> FALSE, metadata |-> EmptyMap,
     size |-> -1, sha1 |-> -1, ver |-> 0, last |-> [n \in Names |-> -1]]

\* ver and last are read by no handler: they are an observer's record of the
\* bucket.  ver counts the changes of info.files (it stays -1 when the observer
\* does not count); last[n] is the digest of the latest completed upload of
\* name n, -1 when there is none or n was deleted since
Bump(v) == IF v = -1 THEN -1 ELSE v + 1
Uploaded(info, n, digest) == [info EXCEPT !.ver = Bump(@), !.last[n] = digest]
Deleted(info, n) == [info EXCEPT !.ver = Bump(@), !.last[n] = -1]

(***************************************************************************)
(* The handlers' effect on the bucket info object.                         *)
(***************************************************************************)
\* a replacement that drops the old entry and pushes the new one at the end
onFileUploadCompleteMoveToEnd(info, fileName, fileSize, digest, t) ==
    LET fileInfo == [name |-> fileName, uploaded |-> t, size |-> fileSize, sha1 |-> digest]
    IN  [info EXCEPT !.hasFiles = TRUE,
                     !.files = Append(SelectSeq(info.files, LAMBDA e : e.name # fileName),
                                      fileInfo)]

\* info.files = [] in place of info.files = info.files || []
onFileUploadCompleteFreshList(info, fileName, fileSize, digest, t) ==
    [info EXCEPT !.hasFiles = TRUE,
                 !.files = <<[name |-> fileName, uploaded |-> t, size |-> fileSize,
                              sha1 |-> digest]>>]

onFileUploadComplete(info, fileName, fileSize, digest, t) ==
    LET files == info.files
        i == findFileIndex(files, fileName)
        fileInfo == [name |-> fileName, uploaded |-> t, size |-> fileSize, sha1 |-> digest]
    IN  [info EXCEPT !.hasFiles = TRUE,
                     !.files = IF i = -1 THEN Append(files, fileInfo)
                                         ELSE [files EXCEPT ![i + 1] = fileInfo]]

\* req.body is always an object here: multer and bodyParser.json() both set it
handleMetadataPost(info, body) == [info EXCEPT !.hasMeta = TRUE, !.metadata = body]

\* Object.addEach(target, source) assigns target[key] for every key of source;
\* with target undefined the first assignment throws a TypeError
addEachThrows(info, body) == ~info.hasMeta /\ DOMAIN body # {}

handleMetadataPatch(info, body) ==
    IF ~info.hasMeta THEN info
    ELSE [info EXCEPT !.metadata =
              [k \in DOMAIN info.metadata \cup DOMAIN body |->
                   IF k \in DOMAIN body THEN body[k] ELSE info.metadata[k]]]

\* isNaN and parseInt on the strings the model sends
isNaN(p) == p \notin {"0", "1", "-1"}
parseInt(p) == IF p = "0" THEN 0 ELSE IF p = "1" THEN 1 ELSE -1

\* parseInt(req.query.ttl) || defaultTtl: NaN and 0 are falsy
ttlOf(q) == IF isNaN(q) \/ parseInt(q) = 0 THEN defaultTtl ELSE parseInt(q)

\* findFileInBucket: "throw" (files is undefined), -1 (404) or the index found
findFileInBucket(info, p) ==
    IF ~info.hasFiles THEN [throws |-> TRUE, idx |-> -1]
    ELSE LET fileIdx == IF isNaN(p) THEN findFileIndex(info.files, p) ELSE parseInt(p)
         IN  [throws |-> FALSE,
              idx |-> IF fileIdx # -1 /\ fileIdx < Len(info.files) THEN fileIdx ELSE -1]

\* files.splice(index, 1)
splice(files, index) ==
    [i \in 1..(Len(files) - 1) |-> IF i <= index THEN files[i] ELSE files[i + 1]]

\* removeBucketZip: the rimraf it issues when req.files is not empty
removeBucketZip(hasFiles, id) == IF hasFiles THEN {<<id, ZipTarget>>} ELSE {}

\* the response of the handler that follows prepareBucketZip on the route:
\* returnFileContent on GET /:id, returnBucketInfo on the others
ZipResp(kind, hasOutput, z) ==
    IF kind = "getzip"
    THEN IF hasOutput
         THEN [NoResp EXCEPT !.code = "archive", !.names = z.names,
                             !.complete = z.complete, !.corrupt = z.corrupt, !.ver = z.ver]
         ELSE [NoResp EXCEPT !.code = "empty"]
    ELSE [NoResp EXCEPT !.code = "info"]

\* the request is over: only its kind, its bucket and its response are kept
Over(r, resp) ==
    [IdleReq EXCEPT !.pc = "done", !.kind = req[r].kind, !.id = req[r].id,
                    !.oid = req[r].oid, !.startVer = req[r].startVer, !.resp = resp]

Respond(r, code) == Over(r, [NoResp EXCEPT !.code = code])

\* findExistingBucket's 404 'Invalid bucket id'
NotFound(kind, id) ==
    [IdleReq EXCEPT !.pc = "done", !.kind = kind, !.id = id,
                    !.resp = [NoResp EXCEPT !.code = "notfound"]]

Free(r) == req[r].pc \in {"idle", "done"}

\* a request arrives and takes the first free slot
CanStart(r) ==
    /\ alive
    /\ nreq < MaxReq
    /\ Free(r)
    /\ \A q \in Reqs : q < r => ~Free(q)

(***************************************************************************)
(* POST /:id  (line 440): findExistingBucket, handleFileUpload, ...        *)
(***************************************************************************)
StartUpload(r, id, hasFile, name, data, body) ==
    /\ CanStart(r)
    /\ IF buckets[id] = 0
       THEN /\ req' = [req EXCEPT ![r] = NotFound("upload", id)]
            /\ UNCHANGED objs
       ELSE LET o == buckets[id]
                base == [IdleReq EXCEPT !.kind = "upload", !.id = id, !.oid = o,
                                       !.hasFile = hasFile, !.body = body,
                                       !.startVer = objs[o].ver]
            IN  IF hasFile
                THEN /\ req' = [req EXCEPT ![r] = [base EXCEPT !.pc = "upstart",
                                                       !.name = name, !.data = data]]
                     /\ UNCHANGED objs
                ELSE \* no file part: multer calls next() at once; req.files is empty
                     /\ objs' = [objs EXCEPT ![o] = handleMetadataPost(@, body)]
                     /\ req' = [req EXCEPT ![r] = [base EXCEPT !.pc = "exists"]]
    /\ nreq' = nreq + 1
    /\ UNCHANGED <<now, lastSweep, alive, buckets, disk, pendingRm>>

\* onFileUploadStart and the open of fs.createWriteStream(dest + '/' + name)
FileOpen(r) ==
    /\ alive
    /\ req[r].pc = "upstart"
    /\ LET id == req[r].id
           d == disk[id]
           f == d.files[req[r].name]
       IN  IF d.exists
           THEN /\ disk' = [disk EXCEPT ![id].files[req[r].name] =
                              [present |-> TRUE, bytes |-> <<>>,
                               writers |-> (IF f.present THEN f.writers ELSE {}) \cup {r}]]
                /\ req' = [req EXCEPT ![r].pc = "writing", ![r].sha = Sha1Init,
                                      ![r].pos = 0]
                /\ UNCHANGED alive
           ELSE \* ENOENT: an 'error' event of the write stream
                \E handled \in BOOLEAN :
                    /\ alive' = handled
                    /\ req' = [req EXCEPT ![r] = Respond(r, "error")]
                    /\ UNCHANGED disk
    /\ UNCHANGED <<now, lastSweep, buckets, objs, pendingRm, nreq>>

\* onFileUploadData: one chunk is hashed, counted and written
FileData(r) ==
    /\ alive
    /\ req[r].pc = "writing"
    /\ req[r].pos < Len(Delivered(req[r].data))
    /\ LET id == req[r].id
           f == disk[id].files[req[r].name]
           c == req[r].data[req[r].pos + 1]
       IN  /\ req' = [req EXCEPT ![r].pos = @ + 1, ![r].sha = Sha1Update(@, c)]
           /\ disk' = IF disk[id].exists /\ f.present /\ r \in f.writers
                      THEN [disk EXCEPT ![id].files[req[r].name].bytes =
                                            WriteAt(@, req[r].pos, c)]
                      ELSE disk
    /\ UNCHANGED <<now, lastSweep, alive, buckets, objs, pendingRm, nreq>>

\* the write stream's 'finish': onFileUploadComplete, then next() runs
\* handleMetadataPost, removeBucketZip (not on POST /) and prepareBucketZip's fs.exists
FileEnd(r) ==
    /\ alive
    /\ req[r].pc = "writing"
    /\ req[r].pos = Len(Delivered(req[r].data))
    /\ LET id == req[r].id
           o == req[r].oid
           f == disk[id].files[req[r].name]
           done == onFileUploadComplete(objs[o], req[r].name, req[r].pos, req[r].sha, now)
       IN  /\ objs' = [objs EXCEPT ![o] = Uploaded(handleMetadataPost(done, req[r].body),
                                                   req[r].name, req[r].sha)]
           /\ disk' = IF disk[id].exists /\ f.present
                      THEN [disk EXCEPT ![id].files[req[r].name].writers = @ \ {r}]
                      ELSE disk
           /\ pendingRm' = pendingRm \cup
                  (IF req[r].kind = "upload" THEN removeBucketZip(TRUE, objs[o].id) ELSE {})
           /\ req' = [req EXCEPT ![r] =
                         [IdleReq EXCEPT !.pc = "exists", !.kind = req[r].kind,
                                         !.id = req[r].id, !.oid = o, !.hasFile = TRUE,
                                         !.name = req[r].name,
                                         !.fidx = findFileIndex(objs[o].files, req[r].name),
                                         !.startVer = req[r].startVer]]
    /\ UNCHANGED <<now, lastSweep, alive, buckets, nreq>>

(***************************************************************************)
(* prepareBucketZip (lines 289-349).                                       *)
(***************************************************************************)
Crashed(r) == [Over(r, NoResp) EXCEPT !.pc = "crashed"]

\* the fs.exists callback: serve the zip on disk, or the "no files" output,
\* or start a build
ExistsCb(r) ==
    /\ alive
    /\ req[r].pc = "exists"
    /\ LET info == getInfo(r)
           d == disk[info.id]
           exists == d.exists /\ d.zip.present
       IN  IF exists
           THEN req' = [req EXCEPT ![r] = Over(r, ZipResp(req[r].kind, TRUE, d.zip))]
           ELSE IF ~info.hasFiles \/ Len(info.files) = 0
           THEN req' = [req EXCEPT ![r] = Over(r, ZipResp(req[r].kind, FALSE, d.zip))]
           ELSE req' = [req EXCEPT ![r] =
                           [IdleReq EXCEPT !.pc = "build", !.kind = req[r].kind,
                                           !.id = req[r].id, !.oid = req[r].oid,
                                           !.startVer = req[r].startVer]]
    /\ UNCHANGED <<now, lastSweep, alive, buckets, objs, disk, pendingRm, nreq>>

\* the open of fs.createWriteStream(zipPath), flag 'w': creates the file or
\* truncates the one at the path; the stream has no 'error' listener
ZipOpen(r) ==
    /\ alive
    /\ req[r].pc = "build"
    /\ ~req[r].zopen
    /\ LET id == getInfo(r).id
           d == disk[id]
           z == d.zip
       IN  IF d.exists
           THEN /\ disk' = [disk EXCEPT ![id].zip =
                              [present |-> TRUE, names |-> {}, complete |-> FALSE,
                               writers |-> (IF z.present THEN z.writers ELSE {}) \cup {r},
                               corrupt |-> z.present /\ z.writers # {},
                               ver |-> getInfo(r).ver]]
                /\ req' = [req EXCEPT ![r].zopen = TRUE]
                /\ UNCHANGED alive
           ELSE /\ alive' = FALSE
                /\ req' = [req EXCEPT ![r] = Crashed(r)]
                /\ UNCHANGED disk
    /\ UNCHANGED <<now, lastSweep, buckets, objs, pendingRm, nreq>>

\* the fs.readdir callback (issued after the open, and taken to complete
\* after it): every directory entry but <id>.zip is queued
ZipReaddir(r) ==
    /\ alive
    /\ req[r].pc = "build"
    /\ req[r].zopen
    /\ ~req[r].zlist
    /\ LET info == getInfo(r)
           d == disk[info.id]
       IN  IF d.exists
           THEN /\ req' = [req EXCEPT ![r].zlist = TRUE,
                               ![r].listing = {n \in Names : d.files[n].present},
                               ![r].lver = info.ver]
                /\ UNCHANGED alive
           ELSE \* err is ignored and files is undefined: files.forEach throws
                /\ alive' = FALSE
                /\ req' = [req EXCEPT ![r] = Crashed(r)]
    /\ UNCHANGED <<now, lastSweep, buckets, objs, disk, pendingRm, nreq>>

\* archiver reads the queued files and the output stream closes
ZipFinish(r) ==
    /\ alive
    /\ req[r].pc = "build"
    /\ req[r].zlist
    /\ LET id == getInfo(r).id
           d == disk[id]
           z == d.zip
           mine == d.exists /\ z.present /\ r \in z.writers
           readable == d.exists /\ \A n \in req[r].listing : d.files[n].present
       IN  IF readable
           THEN /\ disk' = IF mine
                           THEN [disk EXCEPT ![id].zip =
                                    [z EXCEPT !.names = req[r].listing,
                                              !.writers = @ \ {r},
                                              !.complete = (z.writers = {r}),
                                              !.ver = req[r].lver]]
                           ELSE disk
                /\ req' = [req EXCEPT ![r].pc = "stat"]
           ELSE \* a queued file is gone: zip.on('error') calls next(new Error(...))
                /\ disk' = IF mine THEN [disk EXCEPT ![id].zip.writers = @ \ {r}] ELSE disk
                /\ req' = [req EXCEPT ![r] = Respond(r, "error")]
    /\ UNCHANGED <<now, lastSweep, alive, buckets, objs, pendingRm, nreq>>

\* write streams emit no 'data' event: sha1 is never updated (line 323)
ZipDigest == Sha1Init

\* the fs.stat callback of output.on('close'): stats is undefined when the
\* path is gone, and stats.size throws inside the callback
StatCb(r) ==
    /\ alive
    /\ req[r].pc = "stat"
    /\ LET o == req[r].oid
           d == disk[objs[o].id]
       IN  IF d.exists /\ d.zip.present
           THEN /\ objs' = [objs EXCEPT ![o].size = Cardinality(d.zip.names),
                                        ![o].sha1 = ZipDigest]
                /\ req' = [req EXCEPT ![r] = Over(r, ZipResp(req[r].kind, TRUE, d.zip))]
                /\ UNCHANGED alive
           ELSE /\ alive' = FALSE
                /\ req' = [req EXCEPT ![r] = Crashed(r)]
                /\ UNCHANGED objs
    /\ UNCHANGED <<now, lastSweep, buckets, disk, pendingRm, nreq>>

\* GET /:id  (line 443)
StartGetZip(r, id) ==
    /\ CanStart(r)
    /\ req' = [req EXCEPT ![r] =
                 IF buckets[id] = 0
                 THEN NotFound("getzip", id)
                 ELSE [IdleReq EXCEPT !.kind = "getzip", !.id = id, !.oid = buckets[id],
                                     !.pc = "exists", !.startVer = objs[buckets[id]].ver]]
    /\ nreq' = nreq + 1
    /\ UNCHANGED <<now, lastSweep, alive, buckets, objs, disk, pendingRm>>

(***************************************************************************)
(* Files by index or name.                                                 *)
(***************************************************************************)
\* GET /:id/files/:idx_or_name  (line 452); fs.createReadStream of a path
\* that is gone emits an 'error' nobody listens to
StartGetFile(r, id, p) ==
    /\ CanStart(r)
    /\ LET base == [IdleReq EXCEPT !.kind = "getfile", !.id = id, !.name = p]
       IN  IF buckets[id] = 0
           THEN /\ req' = [req EXCEPT ![r] = [base EXCEPT !.pc = "done",
                                                  !.resp = [NoResp EXCEPT !.code = "notfound"]]]
                /\ UNCHANGED alive
           ELSE LET o == buckets[id]
                    info == objs[o]
                    found == findFileInBucket(info, p)
                    stored == disk[info.id].files[info.files[found.idx + 1].name]
                IN  IF found.throws
                    THEN /\ req' = [req EXCEPT ![r] = [base EXCEPT !.oid = o, !.pc = "done",
                                         !.resp = [NoResp EXCEPT !.code = "error"]]]
                         /\ UNCHANGED alive
                    ELSE IF found.idx = -1
                    THEN /\ req' = [req EXCEPT ![r] = [base EXCEPT !.oid = o, !.pc = "done",
                                         !.resp = [NoResp EXCEPT !.code = "nofile"]]]
                         /\ UNCHANGED alive
                    ELSE IF disk[info.id].exists /\ stored.present
                    THEN /\ req' = [req EXCEPT ![r] = [base EXCEPT !.oid = o, !.pc = "done",
                                         !.resp = [NoResp EXCEPT !.code = "file",
                                                       !.names = {info.files[found.idx + 1].name},
                                                       !.bytes = stored.bytes]]]
                         /\ UNCHANGED alive
                    ELSE /\ req' = [req EXCEPT ![r] = [base EXCEPT !.oid = o, !.pc = "crashed"]]
                         /\ alive' = FALSE
    /\ nreq' = nreq + 1
    /\ UNCHANGED <<now, lastSweep, buckets, objs, disk, pendingRm>>

\* DELETE /:id/files/:idx_or_name  (line 455): findFileInBucket,
\* removeFileFromBucket, removeBucketZip, then prepareBucketZip's fs.exists
StartDelFile(r, id, p) ==
    /\ CanStart(r)
    /\ LET base == [IdleReq EXCEPT !.kind = "delfile", !.id = id, !.name = p]
       IN  IF buckets[id] = 0
           THEN /\ req' = [req EXCEPT ![r] = [base EXCEPT !.pc = "done",
                                                  !.resp = [NoResp EXCEPT !.code = "notfound"]]]
                /\ UNCHANGED <<objs, pendingRm>>
           ELSE LET o == buckets[id]
                    info == objs[o]
                    found == findFileInBucket(info, p)
                IN  IF found.throws
                    THEN /\ req' = [req EXCEPT ![r] = [base EXCEPT !.oid = o, !.pc = "done",
                                         !.resp = [NoResp EXCEPT !.code = "error"]]]
                         /\ UNCHANGED <<objs, pendingRm>>
                    ELSE IF found.idx = -1
                    THEN /\ req' = [req EXCEPT ![r] = [base EXCEPT !.oid = o, !.pc = "done",
                                         !.resp = [NoResp EXCEPT !.code = "nofile"]]]
                         /\ UNCHANGED <<objs, pendingRm>>
                    ELSE /\ objs' = [objs EXCEPT ![o] =
                                       Deleted([info EXCEPT !.files = splice(@, found.idx)],
                                               info.files[found.idx + 1].name)]
                         /\ pendingRm' = pendingRm
                                \cup {<<info.id, info.files[found.idx + 1].name>>}
                                \cup removeBucketZip(TRUE, info.id)
                         /\ req' = [req EXCEPT ![r] = [base EXCEPT !.oid = o, !.pc = "exists",
                                                           !.hasFile = TRUE]]
    /\ nreq' = nreq + 1
    /\ UNCHANGED <<now, lastSweep, alive, buckets, disk>>

\* a pending rimraf takes effect
RimrafDone(t) ==
    /\ alive
    /\ t \in pendingRm
    /\ pendingRm' = pendingRm \ {t}
    /\ disk' = IF t[2] = DirTarget THEN [disk EXCEPT ![t[1]] = NoDir]
               ELSE IF t[2] = ZipTarget THEN [disk EXCEPT ![t[1]].zip = NoZip]
               ELSE [disk EXCEPT ![t[1]].files[t[2]] = NoFile]
    /\ UNCHANGED <<now, lastSweep, alive, buckets, objs, req, nreq>>

(***************************************************************************)
(* The registry: create, delete, the sweeper, the clock.                   *)
(***************************************************************************)
\* POST /  (line 431): createBucket up to its fs.mkdir
StartCreate(r, id, q, hasFile, name, data, body) ==
    /\ CanStart(r)
    /\ Len(objs) < MaxBuckets
    /\ objs' = Append(objs, NewInfo(id, now, ttlOf(q)))
    /\ buckets' = [buckets EXCEPT ![id] = Len(objs) + 1]
    /\ req' = [req EXCEPT ![r] =
                 [IdleReq EXCEPT !.kind = "create", !.pc = "mkdir", !.id = id,
                                 !.oid = Len(objs) + 1, !.hasFile = hasFile,
                                 !.name = IF hasFile THEN name ELSE "",
                                 !.data = IF hasFile THEN data ELSE <<>>,
                                 !.body = body]]
    /\ nreq' = nreq + 1
    /\ UNCHANGED <<now, lastSweep, alive, disk, pendingRm>>

\* the fs.mkdir callback: an error response, or next() into handleFileUpload,
\* which without a file part goes on to handleMetadataPost and prepareBucketZip
MkdirCb(r) ==
    /\ alive
    /\ req[r].pc = "mkdir"
    /\ LET id == getInfo(r).id
           o == req[r].oid
       IN  IF disk[id].exists
           THEN \* EEXIST
                /\ req' = [req EXCEPT ![r] = Respond(r, "error")]
                /\ UNCHANGED <<disk, objs>>
           ELSE /\ disk' = [disk EXCEPT ![id] = EmptyDir]
                /\ IF req[r].hasFile
                   THEN /\ req' = [req EXCEPT ![r].pc = "upstart"]
                        /\ UNCHANGED objs
                   ELSE /\ objs' = [objs EXCEPT ![o] = handleMetadataPost(@, req[r].body)]
                        /\ req' = [req EXCEPT ![r].pc = "exists"]
    /\ UNCHANGED <<now, lastSweep, alive, buckets, pendingRm, nreq>>

\* DELETE /:id  (line 446): removeBucket calls rimraf(getDir(info)) without a
\* callback, which rimraf either rejects by throwing (then buckets.delete is
\* not reached) or accepts, depending on its version
StartDelBucket(r, id) ==
    /\ CanStart(r)
    /\ IF buckets[id] = 0
       THEN /\ req' = [req EXCEPT ![r] = NotFound("delbucket", id)]
            /\ UNCHANGED <<buckets, pendingRm>>
       ELSE \E throws \in BOOLEAN :
              LET base == [IdleReq EXCEPT !.kind = "delbucket", !.id = id,
                                          !.oid = buckets[id], !.pc = "done"]
              IN  IF throws
                  THEN /\ req' = [req EXCEPT ![r] =
                                    [base EXCEPT !.resp = [NoResp EXCEPT !.code = "error"]]]
                       /\ UNCHANGED <<buckets, pendingRm>>
                  ELSE /\ req' = [req EXCEPT ![r] =
                                    [base EXCEPT !.resp = [NoResp EXCEPT !.code = "info"]]]
                       /\ pendingRm' = pendingRm \cup {<<id, DirTarget>>}
                       /\ buckets' = [buckets EXCEPT ![id] = 0]
    /\ nreq' = nreq + 1
    /\ UNCHANGED <<now, lastSweep, alive, objs, disk>>

\* the sweeper removes an entry that is both expired and deleted at once
ExpiredOrNow(bucket, t) == bucket.expires <= t

\* bucket.expires < now  (line 99)
Expired(bucket, t) == bucket.expires < t

\* the setInterval callback (lines 95-105)
Sweep ==
    /\ alive
    /\ now >= lastSweep + SweepInterval
    /\ LET gone == {i \in Ids : buckets[i] # 0 /\ Expired(objs[buckets[i]], now)}
       IN  /\ buckets' = [i \in Ids |-> IF i \in gone THEN 0 ELSE buckets[i]]
           /\ pendingRm' = pendingRm \cup {<<i, DirTarget>> : i \in gone}
    /\ lastSweep' = now
    /\ UNCHANGED <<now, alive, objs, disk, req, nreq>>

\* time passes; the timer is punctual: a sweep that is due runs before the
\* clock moves on
Tick ==
    /\ alive
    /\ now < MaxTime
    /\ now < lastSweep + SweepInterval
    /\ now' = now + 1
    /\ UNCHANGED <<lastSweep, alive, buckets, objs, disk, pendingRm, req, nreq>>

(***************************************************************************)
(* Metadata.                                                               *)
(***************************************************************************)
\* POST and PATCH /:id/metadata (lines 458, 461) up to bodyParser.json()
StartMeta(r, kind, id, body) ==
    /\ CanStart(r)
    /\ req' = [req EXCEPT ![r] =
                 IF buckets[id] = 0
                 THEN NotFound(kind, id)
                 ELSE [IdleReq EXCEPT !.kind = kind, !.id = id, !.oid = buckets[id],
                                      !.pc = "body", !.body = body]]
    /\ nreq' = nreq + 1
    /\ UNCHANGED <<now, lastSweep, alive, buckets, objs, disk, pendingRm>>

\* the body is parsed: handleMetadataPost or handleMetadataPatch, then
\* returnBucketInfo; a TypeError of Object.addEach goes to the error handler
BodyCb(r) ==
    /\ alive
    /\ req[r].pc = "body"
    /\ LET o == req[r].oid
       IN  IF req[r].kind = "setmeta"
           THEN /\ objs' = [objs EXCEPT ![o] = handleMetadataPost(@, req[r].body)]
                /\ req' = [req EXCEPT ![r] = [Respond(r, "info") EXCEPT !.body = req[r].body]]
           ELSE IF addEachThrows(objs[o], req[r].body)
           THEN /\ req' = [req EXCEPT ![r] = [Respond(r, "error") EXCEPT !.body = req[r].body]]
                /\ UNCHANGED objs
           ELSE /\ objs' = [objs EXCEPT ![o] = handleMetadataPatch(@, req[r].body)]
                /\ req' = [req EXCEPT ![r] = [Respond(r, "info") EXCEPT !.body = req[r].body]]
    /\ UNCHANGED <<now, lastSweep, alive, buckets, disk, pendingRm, nreq>>

(***************************************************************************)
(* GET /info?ids=  (line 437).                                             *)
(***************************************************************************)
\* ids.map(buckets.get): 0 stands for the undefined of an id not in the map
listSelectedBuckets(ids) == [k \in 1..Len(ids) |-> buckets[ids[k]]]

\* Object.clone(undefined) is undefined, and reading info.time of it throws
bucketInfoOutThrows(o) == o = 0

\* res.json(req.output.map(bucketInfoOut)), or the error handler's response
returnBucketInfoList(output) ==
    IF \E k \in 1..Len(output) : bucketInfoOutThrows(output[k])
    THEN [NoResp EXCEPT !.code = "error"]
    ELSE [NoResp EXCEPT !.code = "list",
                        !.list = [k \in 1..Len(output) |-> objs[output[k]].id]]

StartList(r, ids) ==
    /\ CanStart(r)
    /\ req' = [req EXCEPT ![r] =
                 [IdleReq EXCEPT !.kind = "list", !.pc = "done", !.ids = ids,
                                 !.resp = returnBucketInfoList(listSelectedBuckets(ids))]]
    /\ nreq' = nreq + 1
    /\ UNCHANGED <<now, lastSweep, alive, buckets, objs, disk, pendingRm>>

(***************************************************************************)
(* Initial states.                                                         *)
(***************************************************************************)
\* the process has just started: rimraf.sync(fileDir), fs.mkdirSync(fileDir)
Init ==
    /\ now = 0
    /\ lastSweep = 0
    /\ alive = TRUE
    /\ buckets = [i \in Ids |-> 0]
    /\ objs = <<>>
    /\ disk = [i \in Ids |-> NoDir]
    /\ pendingRm = {}
    /\ req = [r \in Reqs |-> IdleReq]
    /\ nreq = 0

\* one bucket has been created by a POST / without files (metadata = {}, no
\* files array, an empty directory): the state of a completed create request.
\* ver0 is 0 when the observer counts the changes of the file list, else -1
InitBucket(ver0) ==
    /\ now = 0
    /\ lastSweep = 0
    /\ alive = TRUE
    /\ buckets = [i \in Ids |-> IF i = "i1" THEN 1 ELSE 0]
    /\ objs = <<[handleMetadataPost(NewInfo("i1", 0, defaultTtl), EmptyMap)
                      EXCEPT !.ver = ver0]>>
    /\ disk = [i \in Ids |-> IF i = "i1" THEN EmptyDir ELSE NoDir]
    /\ pendingRm = {}
    /\ req = [r \in Reqs |-> IdleReq]
    /\ nreq = 0

\* uploads, file deletes and file downloads on the bucket
NextUpload ==
    \/ \E r \in Reqs, n \in Names, data \in Payloads :
           StartUpload(r, "i1", TRUE, n, data, EmptyMap)
    \/ \E r \in Reqs : FileOpen(r)
    \/ \E r \in Reqs : FileData(r)
    \/ \E r \in Reqs : FileEnd(r)
    \/ \E r \in Reqs : ExistsCb(r)
    \/ \E r \in Reqs : ZipOpen(r)
    \/ \E r \in Reqs : ZipReaddir(r)
    \/ \E r \in Reqs : ZipFinish(r)
    \/ \E r \in Reqs : StatCb(r)
    \/ \E r \in Reqs : StartGetFile(r, "i1", "a")
    \/ \E r \in Reqs : StartDelFile(r, "i1", "0")
    \/ \E t \in pendingRm : RimrafDone(t)

InitUpload == InitBucket(-1)

SpecUpload == InitUpload /\ [][NextUpload]_vars

\* archive downloads, with uploads and file deletes that change the file set
NextArchive ==
    \/ \E r \in Reqs, n \in Names :
           StartUpload(r, "i1", TRUE, n, <<1>>, EmptyMap)
    \/ \E r \in Reqs : FileOpen(r)
    \/ \E r \in Reqs : FileData(r)
    \/ \E r \in Reqs : FileEnd(r)
    \/ \E r \in Reqs : StartGetZip(r, "i1")
    \/ \E r \in Reqs : ExistsCb(r)
    \/ \E r \in Reqs : ZipOpen(r)
    \/ \E r \in Reqs : ZipReaddir(r)
    \/ \E r \in Reqs : ZipFinish(r)
    \/ \E r \in Reqs : StatCb(r)
    \/ \E r \in Reqs : StartDelFile(r, "i1", "0")
    \/ \E t \in pendingRm : RimrafDone(t)

InitArchive == InitBucket(0)

SpecArchive == InitArchive /\ [][NextArchive]_vars

\* the whole service
Next ==
    \/ \E r \in Reqs, id \in Ids, q \in TtlQueries, hasFile \in BOOLEAN,
           n \in Names, data \in Payloads, body \in Metas :
           StartCreate(r, id, q, hasFile, n, data, body)
    \/ \E r \in Reqs : MkdirCb(r)
    \/ \E r \in Reqs, id \in Ids, hasFile \in BOOLEAN, n \in Names,
           data \in Payloads, body \in Metas :
           StartUpload(r, id, hasFile, n, data, body)
    \/ \E r \in Reqs : FileOpen(r)
    \/ \E r \in Reqs : FileData(r)
    \/ \E r \in Reqs : FileEnd(r)
    \/ \E r \in Reqs, id \in Ids : StartGetZip(r, id)
    \/ \E r \in Reqs : ExistsCb(r)
    \/ \E r \in Reqs : ZipOpen(r)
    \/ \E r \in Reqs : ZipReaddir(r)
    \/ \E r \in Reqs : ZipFinish(r)
    \/ \E r \in Reqs : StatCb(r)
    \/ \E r \in Reqs, id \in Ids, p \in FileParams : StartGetFile(r, id, p)
    \/ \E r \in Reqs, id \in Ids, p \in FileParams : StartDelFile(r, id, p)
    \/ \E r \in Reqs, id \in Ids, body \in Metas : StartMeta(r, "setmeta", id, body)
    \/ \E r \in Reqs, id \in Ids, body \in Metas : StartMeta(r, "patchmeta", id, body)
    \/ \E r \in Reqs : BodyCb(r)
    \/ \E r \in Reqs, id \in Ids : StartDelBucket(r, id)
    \/ \E r \in Reqs, ids \in IdLists : StartList(r, ids)
    \/ \E t \in pendingRm : RimrafDone(t)
    \/ Sweep
    \/ Tick

Spec == Init /\ [][Next]_vars

(***************************************************************************)
(* Properties of the upload callbacks (SpecUpload).                        *)
(***************************************************************************)
\* the step in which request r's file finishes and is recorded
CompletesUpload(r) == req[r].pc = "writing" /\ req'[r].pc = "exists"

Recorded(r, e) ==
    e.name = req[r].name /\ e.size = req[r].pos /\ e.sha1 = req[r].sha

\* C4: when an upload completes for a name already in files at index i, the new
\* entry is stored at index i, the length is unchanged and every other entry
\* keeps its position; when the name is absent the entry is appended at the end.
C4_ReplaceInPlace ==
    [][\A r \in Reqs : CompletesUpload(r) =>
          LET old == objs[req[r].oid].files
              new == objs'[req[r].oid].files
          IN  IF \E i \in 1..Len(old) : old[i].name = req[r].name
              THEN /\ Len(new) = Len(old)
                   /\ \A i \in 1..Len(old) :
                          IF old[i].name = req[r].name
                          THEN Recorded(r, new[i])
                          ELSE new[i] = old[i]
              ELSE /\ Len(new) = Len(old) + 1
                   /\ \A i \in 1..Len(old) : new[i] = old[i]
                   /\ Recorded(r, new[Len(new)])]_vars

\* a same-name upload has just replaced the first of two entries
C4_Witness ==
    \E r \in Reqs :
        /\ req[r].kind = "upload" /\ req[r].pc = "exists" /\ req[r].fidx = 0
        /\ Len(objs[req[r].oid].files) = 2
        /\ objs[req[r].oid].files[1].name = req[r].name

\* C5: in every reachable state no two entries of a bucket's files have the
\* same name.
C5_UniqueNames ==
    \A o \in 1..Len(objs) :
        \A i, j \in 1..Len(objs[o].files) :
            objs[o].files[i].name = objs[o].files[j].name => i = j

\* a bucket holds two files after a same-name upload replaced the second one
C5_Witness ==
    \E r \in Reqs :
        /\ req[r].kind = "upload" /\ req[r].pc = "exists" /\ req[r].fidx = 1
        /\ Len(objs[req[r].oid].files) = 2

\* C8 (as claimed): when an upload within the size limit completes, the bytes
\* stored under its name are the bytes uploaded and the sha1 of its entry is
\* the hash of the stored bytes, however another upload interleaves.
C8_RoundTrip ==
    [][\A r \in Reqs :
          (CompletesUpload(r) /\ Len(req[r].data) <= fileSizeLimit) =>
              LET info == objs'[req[r].oid]
                  f == disk'[info.id].files[req[r].name]
                  e == info.files[findFileIndex(info.files, req[r].name) + 1]
              IN  /\ f.present
                  /\ f.bytes = req[r].data
                  /\ e.sha1 = Sha1(f.bytes)]_vars

\* C9 (as claimed): no step of an upload whose file exceeds the size limit
\* changes the files sequence or the stored bytes of a file of the same name,
\* and the request ends with the payload-too-large failure.
C9_CleanSizeLimit ==
    [][\A r \in Reqs :
          (/\ req[r].kind = "upload"
           /\ req[r].pc \in {"upstart", "writing"}
           /\ Len(req[r].data) > fileSizeLimit
           /\ req'[r] # req[r]) =>
              LET o == req[r].oid
                  f == disk[objs[o].id].files[req[r].name]
              IN  /\ objs'[o].files = objs[o].files
                  /\ (/\ req[r].pc = "upstart"
                      /\ f.present
                      /\ req[r].name \in FileNames(objs[o].files)) =>
                         disk'[objs[o].id].files[req[r].name].bytes = f.bytes
                  /\ req'[r].pc = "done" => req'[r].resp.code = "toolarge"]_vars

\* C10: whatever the interleaving of uploads, files holds exactly one entry for
\* every name whose upload completed (and was not deleted since), and that
\* entry is the one written by the latest completed upload of the name.
C10_NoLostInsertion ==
    \A o \in 1..Len(objs) :
        \A n \in Names :
            LET at == {i \in 1..Len(objs[o].files) : objs[o].files[i].name = n}
            IN  IF objs[o].last[n] = -1
                THEN at = {}
                ELSE /\ Cardinality(at) = 1
                     /\ \A i \in at : objs[o].files[i].sha1 = objs[o].last[n]

\* two uploads of different names were in flight together and both completed
C10_Witness ==
    /\ \A r \in Reqs : req[r].kind = "upload" /\ req[r].pc = "exists"
    /\ req[1].name # req[2].name
    /\ req[1].oid = req[2].oid
    /\ Len(objs[req[1].oid].files) = 2

(***************************************************************************)
(* Properties of the archive (SpecArchive).                                *)
(***************************************************************************)
ServedArchive(r) ==
    req[r].kind = "getzip" /\ req[r].pc = "done" /\ req[r].resp.code = "archive"

\* C1 (as claimed): an archive download that arrives after a change of the
\* bucket's files (an upload that completed, a file delete) is never served a
\* cached archive that was built before that change.
C1_NoStaleArchive ==
    \A r \in Reqs :
        (ServedArchive(r) /\ req[r].resp.complete) => req[r].resp.ver >= req[r].startVer

\* C2 (as claimed): two archive downloads of one bucket never build at the same
\* time, and none is served the archive that the other is still writing.
C2_OneBuild ==
    \A r1, r2 \in Reqs :
        (r1 # r2 /\ req[r1].kind = "getzip" /\ req[r2].kind = "getzip"
                 /\ req[r1].oid = req[r2].oid /\ req[r1].pc = "build") =>
            /\ req[r2].pc # "build"
            /\ ~(ServedArchive(r2) /\ ~req[r2].resp.complete)

\* C6 (as claimed): when prepareBucketZip decides an archive download on a
\* bucket whose files sequence is empty, the outcome is the empty-bucket
\* signal, never an archive and never the not-found outcome.
C6_EmptyBucket ==
    [][\A r \in Reqs :
          (/\ req[r].kind = "getzip"
           /\ req[r].pc = "exists"
           /\ req'[r] # req[r]
           /\ Len(objs[req[r].oid].files) = 0) =>
              /\ req'[r].pc = "done"
              /\ req'[r].resp.code = "empty"]_vars

\* creation, deletion and expiry of buckets
NextRegistry ==
    \/ \E r \in Reqs, q \in TtlQueries :
           StartCreate(r, "i1", q, FALSE, "", <<>>, EmptyMap)
    \/ \E r \in Reqs : MkdirCb(r)
    \/ \E r \in Reqs : ExistsCb(r)
    \/ \E r \in Reqs : StartDelBucket(r, "i1")
    \/ \E t \in pendingRm : RimrafDone(t)
    \/ Sweep
    \/ Tick

SpecRegistry == Init /\ [][NextRegistry]_vars

\* metadata requests, also while the bucket's creation is in flight
NextMeta ==
    \/ \E r \in Reqs, body \in Metas :
           StartCreate(r, "i1", "", FALSE, "", <<>>, body)
    \/ \E r \in Reqs : MkdirCb(r)
    \/ \E r \in Reqs : ExistsCb(r)
    \/ \E r \in Reqs, body \in Metas : StartMeta(r, "setmeta", "i1", body)
    \/ \E r \in Reqs, body \in Metas : StartMeta(r, "patchmeta", "i1", body)
    \/ \E r \in Reqs : BodyCb(r)

SpecMeta == Init /\ [][NextMeta]_vars

(***************************************************************************)
(* Properties of the registry (SpecRegistry) and of metadata (SpecMeta).   *)
(***************************************************************************)
CreatesBucket(r) == Free(r) /\ req'[r].kind = "create" /\ req'[r].pc = "mkdir"

DeletesBucket(r, i) ==
    Free(r) /\ req'[r].kind = "delbucket" /\ req'[r].pc = "done" /\ req'[r].id = i

Sweeps == lastSweep' # lastSweep

C7_Metadata ==
    [][\A r \in Reqs : (req[r].pc = "body" /\ req'[r].pc = "done") =>
          LET old == objs[req[r].oid]
              new == objs'[req[r].oid]
              body == req[r].body
              before == IF old.hasMeta THEN DOMAIN old.metadata ELSE {}
          IN  IF req[r].kind = "setmeta"
              THEN new.hasMeta /\ new.metadata = body
              ELSE /\ DOMAIN body # {} => new.hasMeta
                   /\ DOMAIN new.metadata = before \cup DOMAIN body
                   /\ \A k \in DOMAIN body : new.metadata[k] = body[k]
                   /\ \A k \in before \ DOMAIN body :
                          new.metadata[k] = old.metadata[k]]_vars

(***************************************************************************)
(* Properties of createBucket (SpecRegistry).                              *)
(***************************************************************************)
\* C11 (as claimed): the id that createBucket registers is held by no live
\* bucket at that moment, so a create never replaces an entry of the registry.
C11_FreshId ==
    [][\A r \in Reqs : CreatesBucket(r) =>
          /\ buckets[req'[r].id] = 0
          /\ \A i \in Ids : buckets[i] # 0 => buckets'[i] = buckets[i]]_vars

\* C12 (as claimed): in every reachable state every bucket that the registry
\* resolves has its directory on disk; a create whose fs.mkdir is pending or
\* has failed leaves no entry.
C12_NoPartialBucket ==
    \A i \in Ids : buckets[i] # 0 => disk[i].exists

\* C15 (as claimed): every bucket in the registry has a positive ttl and
\* expires = time + ttl minutes > time, and no step changes the id, time, ttl
\* or expires of a bucket object once created.
C15_FixedPositiveTtl ==
    /\ [](\A i \in Ids : buckets[i] # 0 =>
              LET info == objs[buckets[i]]
              IN  /\ info.ttl > 0
                  /\ info.expires = info.time + info.ttl * Minute
                  /\ info.expires > info.time)
    /\ [][\A o \in 1..Len(objs) :
              /\ objs'[o].id = objs[o].id
              /\ objs'[o].time = objs[o].time
              /\ objs'[o].ttl = objs[o].ttl
              /\ objs'[o].expires = objs[o].expires]_vars

(***************************************************************************)
(* Properties of the archive build (SpecArchive).                          *)
(***************************************************************************)
\* the bytes archiver pipes into the output stream: one chunk for each entry,
\* in the order fs.readdir lists the names
ZipBytes(names) ==
    (IF "1" \in names THEN <<1>> ELSE <<>>) \o (IF "a" \in names THEN <<2>> ELSE <<>>)

\* the step in which request r's build ends with the output stream closed
CompletesBuild(r) == req[r].pc = "build" /\ req'[r].pc = "stat"

\* the step in which request r's build ends in zip.on('error')
FailsBuild(r) ==
    req[r].pc = "build" /\ req'[r].pc = "done" /\ req'[r].resp.code = "error"

\* C16 (as claimed): whenever an archive build completes, the entry names of
\* the archive it wrote are exactly the names in the bucket's files sequence at
\* that time.
C16_ArchiveMatchesFiles ==
    [][\A r \in Reqs : CompletesBuild(r) =>
          req[r].listing = FileNames(objs'[req[r].oid].files)]_vars

\* C17 (as claimed): when an archive build fails, no archive file is left at
\* the bucket's zip path, so that the next request starts a fresh build.
C17_CleanBuildFailure ==
    [][\A r \in Reqs :
          (FailsBuild(r) /\ disk[getInfo(r).id].zip.writers \subseteq {r}) =>
              ~disk'[getInfo(r).id].zip.present]_vars

\* C18 (as claimed): when an archive build has completed and its result is
\* recorded, the bucket's sha1 is the hash of the bytes of the archive file and
\* its size is the length of that file.
C18_ArchiveHash ==
    [][\A r \in Reqs : (req[r].pc = "stat" /\ req'[r].pc = "done") =>
          LET info == objs'[req[r].oid]
              bytes == ZipBytes(disk'[info.id].zip.names)
          IN  /\ info.sha1 = Sha1(bytes)
              /\ info.size = Len(bytes)]_vars

(***************************************************************************)
(* Files by index or name, and the frame of the file operations            *)
(* (SpecFiles).                                                            *)
(***************************************************************************)
\* uploads, downloads and deletes of files by every kind of :idx_or_name, on
\* a bucket whose metadata is set by POST /:id/metadata
NextFiles ==
    \/ \E r \in Reqs, n \in Names :
           StartUpload(r, "i1", TRUE, n, <<1>>, EmptyMap)
    \/ \E r \in Reqs : FileOpen(r)
    \/ \E r \in Reqs : FileData(r)
    \/ \E r \in Reqs : FileEnd(r)
    \/ \E r \in Reqs : ExistsCb(r)
    \/ \E r \in Reqs : ZipOpen(r)
    \/ \E r \in Reqs : ZipReaddir(r)
    \/ \E r \in Reqs : ZipFinish(r)
    \/ \E r \in Reqs : StatCb(r)
    \/ \E r \in Reqs, p \in FileParams : StartGetFile(r, "i1", p)
    \/ \E r \in Reqs, p \in FileParams : StartDelFile(r, "i1", p)
    \/ \E r \in Reqs, body \in Metas : StartMeta(r, "setmeta", "i1", body)
    \/ \E r \in Reqs : BodyCb(r)
    \/ \E t \in pendingRm : RimrafDone(t)

SpecFiles == InitUpload /\ [][NextFiles]_vars

\* the step in which a get-file or delete-file request for a live bucket
\* arrives and findFileInBucket runs
Addresses(r) ==
    /\ nreq' = nreq + 1
    /\ req'[r] # req[r]
    /\ req'[r].kind \in {"getfile", "delfile"}
    /\ buckets[req'[r].id] # 0

\* the entry a request for p is to resolve to (0-based), -1 when there is none:
\* the entry of that name, else the entry at that index
Addressed(files, p) ==
    IF \E i \in 1..Len(files) : files[i].name = p
    THEN (CHOOSE i \in 1..Len(files) : files[i].name = p) - 1
    ELSE IF p \in {"0", "1"} /\ parseInt(p) < Len(files) THEN parseInt(p)
    ELSE -1

\* C19 (as claimed): a get-file or delete-file request on a live bucket
\* resolves a name to the entry of that name (also a name made of digits),
\* an index i to files[i], and answers not-found when nothing matches, also on
\* a bucket that never had a file.
C19_FileAddressing ==
    [][\A r \in Reqs : Addresses(r) =>
          LET o == buckets[req'[r].id]
              files == objs[o].files
              target == Addressed(files, req'[r].name)
          IN  IF target = -1
              THEN req'[r].pc = "done" /\ req'[r].resp.code = "nofile"
              ELSE IF req'[r].kind = "getfile"
              THEN /\ req'[r].resp.code \notin {"nofile", "error"}
                   /\ req'[r].resp.code = "file" =>
                          req'[r].resp.names = {files[target + 1].name}
              ELSE /\ req'[r].pc = "exists"
                   /\ objs'[o].files = splice(files, target)]_vars

\* C20 (as claimed): no step of a files-only upload to an existing bucket and
\* no step of a file delete changes the bucket's metadata.
C20_FileOpsFrame ==
    [][\A r \in Reqs :
          (\/ /\ req[r].kind = "upload" /\ req[r].hasFile /\ ~Free(r)
              /\ req[r].body = EmptyMap
              /\ req'[r] # req[r]
           \/ /\ req'[r].kind = "delfile" /\ req'[r].oid # 0
              /\ req'[r] # req[r]) =>
              LET o == req'[r].oid
              IN  /\ objs'[o].hasMeta = objs[o].hasMeta
                  /\ objs'[o].metadata = objs[o].metadata]_vars

(***************************************************************************)
(* Listing selected buckets (SpecList).                                    *)
(***************************************************************************)
\* buckets are created and deleted, and lists of ids are looked up
NextList ==
    \/ \E r \in Reqs, id \in Ids :
           StartCreate(r, id, "", FALSE, "", <<>>, EmptyMap)
    \/ \E r \in Reqs : MkdirCb(r)
    \/ \E r \in Reqs : ExistsCb(r)
    \/ \E r \in Reqs, id \in Ids : StartDelBucket(r, id)
    \/ \E r \in Reqs, ids \in IdLists : StartList(r, ids)
    \/ \E t \in pendingRm : RimrafDone(t)

SpecList == Init /\ [][NextList]_vars

\* C14 (as claimed): a request for a list of ids succeeds and returns the info
\* of exactly the requested ids that are in the registry; an id that is not is
\* left out, or mapped to null, and never makes the request fail.
C14_ListSelected ==
    [][\A r \in Reqs :
          (nreq' = nreq + 1 /\ req'[r] # req[r] /\ req'[r].kind = "list") =>
              LET ids == req'[r].ids
                  live(i) == buckets[i] # 0
              IN  /\ req'[r].resp.code = "list"
                  /\ \/ req'[r].resp.list = SelectSeq(ids, live)
                     \/ req'[r].resp.list =
                            [k \in 1..Len(ids) |-> IF live(ids[k]) THEN ids[k] ELSE "null"]]_vars

(***************************************************************************)
(* Removal of a bucket with requests in flight (SpecTeardown).             *)
(***************************************************************************)
\* two buckets have been created without files: i1 by POST /?ttl=1, i2 by
\* POST /
InitTeardown ==
    /\ now = 0
    /\ lastSweep = 0
    /\ alive = TRUE
    /\ buckets = [i \in Ids |-> IF i = "i1" THEN 1 ELSE 2]
    /\ objs = <<handleMetadataPost(NewInfo("i1", 0, ttlOf("1")), EmptyMap),
                handleMetadataPost(NewInfo("i2", 0, ttlOf("")), EmptyMap)>>
    /\ disk = [i \in Ids |-> EmptyDir]
    /\ pendingRm = {}
    /\ req = [r \in Reqs |-> IdleReq]
    /\ nreq = 0

\* uploads to and archive downloads of bucket i1, which is deleted or expires
\* meanwhile
NextTeardown ==
    \/ \E r \in Reqs : StartUpload(r, "i1", TRUE, "a", <<1>>, EmptyMap)
    \/ \E r \in Reqs : FileOpen(r)
    \/ \E r \in Reqs : FileData(r)
    \/ \E r \in Reqs : FileEnd(r)
    \/ \E r \in Reqs : StartGetZip(r, "i1")
    \/ \E r \in Reqs : ExistsCb(r)
    \/ \E r \in Reqs : ZipOpen(r)
    \/ \E r \in Reqs : ZipReaddir(r)
    \/ \E r \in Reqs : ZipFinish(r)
    \/ \E r \in Reqs : StatCb(r)
    \/ \E r \in Reqs : StartDelBucket(r, "i1")
    \/ \E t \in pendingRm : RimrafDone(t)
    \/ Sweep
    \/ Tick

SpecTeardown == InitTeardown /\ [][NextTeardown]_vars

\* a step of prepareBucketZip in an upload or archive request r whose bucket
\* has been removed from the registry since the request resolved it
Orphaned(r) ==
    /\ req[r].pc \in {"exists", "build", "stat"}
    /\ req[r].kind \in {"upload", "getzip"}
    /\ req[r].oid # 0
    /\ buckets[req[r].id] = 0
    /\ req'[r] # req[r]

\* C13 (as claimed): a step of an archive build (of an archive download, or
\* the one that follows an upload) whose bucket was removed meanwhile leaves
\* the removed id unresolvable and changes nothing of any other bucket: the
\* other buckets stay in the registry of a running service, with their info
\* and their directory as they were.
C13_CleanTeardown ==
    [][\A r \in Reqs : Orphaned(r) =>
          /\ buckets'[req[r].id] = 0
          /\ \A j \in Ids : (j # req[r].id /\ buckets[j] # 0) =>
                 /\ alive'
                 /\ buckets'[j] = buckets[j]
                 /\ objs'[buckets[j]] = objs[buckets[j]]
                 /\ disk'[j] = disk[j]]_vars

====
